---- MODULE Spec2Model ----
(***************************************************************************)
(* The command-line utilities of testdatagen/python: the two generators,   *)
(* the dependency checker, the single-test chi-squared and KS utilities    *)
(* and the multi-test dispatcher statistical_tests.py.  One behaviour is   *)
(* one process: Init is the process before main() runs, and each action    *)
(* is one utility's main() run to the end of the process on one argument   *)
(* vector and one set of answers from numpy/scipy.                         *)
(*                                                                         *)
(* Numbers.  Counts and lengths are integers.  Every Python/numpy float is *)
(* an exact rational [num, den] in lowest terms, the surd [surd |-> r]     *)
(* (the square root of a rational that has no rational root), or NaN.      *)
(* A Python bool is [py |-> "bool", v |-> b]; the result of comparing a    *)
(* numpy scalar is [py |-> "numpy.bool_", v |-> b], which json.dumps       *)
(* refuses to serialize.                                                   *)
(***************************************************************************)
EXTENDS Integers, Sequences, FiniteSets, TLC

VARIABLES pc, utility, argv, result, calls, stdout, stderr, exit_code

vars == <<pc, utility, argv, result, calls, stdout, stderr, exit_code>>

----------------------------------------------------------------------------
(* Bounds of the model *)

\* longest sample enumerated exhaustively
MaxLen == 3
\* longest observed / expected frequency array enumerated exhaustively
MaxFreqLen == 2
\* most values a generator is asked for
MaxN == 2

SeqsUpTo(S, n) == UNION {[1..k -> S] : k \in 0..n}

----------------------------------------------------------------------------
(* Exact arithmetic for floats *)

Abs(x) == IF x < 0 THEN 0 - x ELSE x

RECURSIVE GCD(_, _)
GCD(a, b) == IF b = 0 THEN a ELSE GCD(b, a % b)

Rat(n, d) ==
    LET g == GCD(Abs(n), d)
    IN  [num |-> n \div g, den |-> d \div g]

NaN == [nan |-> TRUE]

IsNaN(x) == "nan" \in DOMAIN x

IsRat(x) == "num" \in DOMAIN x

\* a < b on floats; every ordered comparison with NaN is false
FloatLt(a, b) == IsRat(a) /\ IsRat(b) /\ a.num * b.den < b.num * a.den

FloatGt(a, b) == FloatLt(b, a)

RatAdd(a, b) == Rat(a.num * b.den + b.num * a.den, a.den * b.den)

RECURSIVE SumRange(_, _, _)
SumRange(s, lo, hi) ==
    IF lo > hi THEN 0
    ELSE IF lo = hi THEN s[lo]
    ELSE LET mid == (lo + hi) \div 2
         IN  SumRange(s, lo, mid) + SumRange(s, mid + 1, hi)

Sum(s) == SumRange(s, 1, Len(s))

RECURSIVE RatSumRange(_, _, _)
RatSumRange(s, lo, hi) ==
    IF lo > hi THEN Rat(0, 1)
    ELSE IF lo = hi THEN s[lo]
    ELSE LET mid == (lo + hi) \div 2
         IN  RatAdd(RatSumRange(s, lo, mid), RatSumRange(s, mid + 1, hi))

RatSum(s) == RatSumRange(s, 1, Len(s))

\* floor of the square root of a natural number
ISqrt(k) == CHOOSE i \in 0..k : i * i <= k /\ (i + 1) * (i + 1) > k

IsSquare(k) == ISqrt(k) * ISqrt(k) = k

\* square root of a non-negative rational
Sqrt(r) ==
    IF IsSquare(r.num) /\ IsSquare(r.den)
    THEN Rat(ISqrt(r.num), ISqrt(r.den))
    ELSE [surd |-> r]

Min2(a, b) == IF a < b THEN a ELSE b

----------------------------------------------------------------------------
(* numpy *)

np_mean(data) == IF Len(data) = 0 THEN NaN ELSE Rat(Sum(data), Len(data))

\* population standard deviation (ddof = 0)
np_std(data) ==
    IF Len(data) = 0 THEN NaN
    ELSE LET n  == Len(data)
             s1 == Sum(data)
             s2 == Sum([i \in 1..n |-> data[i] * data[i]])
         IN  Sqrt(Rat(n * s2 - s1 * s1, n * n))

np_min(data) == CHOOSE x \in {data[i] : i \in 1..Len(data)} :
                    \A j \in 1..Len(data) : x <= data[j]

np_max(data) == CHOOSE x \in {data[i] : i \in 1..Len(data)} :
                    \A j \in 1..Len(data) : x >= data[j]

\* bin of value x among n_bins equal-width bins over [lo, hi]; a sample of
\* one distinct value is spread over [lo - 0.5, hi + 0.5]
HistBin(lo, hi, n_bins, x) ==
    IF lo = hi THEN n_bins \div 2
    ELSE IF x = hi THEN n_bins - 1
    ELSE ((x - lo) * n_bins) \div (hi - lo)

\* np.histogram(data, bins = n_bins)[0] for n_bins >= 1 and a non-empty sample
np_histogram(data, n_bins) ==
    LET lo == np_min(data)
        hi == np_max(data)
    IN  [b \in 1..n_bins |->
            Cardinality({i \in 1..Len(data) :
                            HistBin(lo, hi, n_bins, data[i]) = b - 1})]

np_full(n, v) == [i \in 1..n |-> v]

PyBool(b) == [py |-> "bool", v |-> b]

NpBool(b) == [py |-> "numpy.bool_", v |-> b]

----------------------------------------------------------------------------
(* Python values *)

None == [none |-> TRUE, items |-> {}]

\* a dict of named parameters: a set of <<key, value>> pairs, one per key
Dict(items) == [none |-> FALSE, items |-> items]

\* truth value of `params` in `if params:`; None and {} are both false
Truthy(params) == ~params.none /\ params.items # {}

DictHas(d, k) == \E p \in d.items : p[1] = k

\* d.get(k, default)
DictGet(d, k, default) ==
    IF DictHas(d, k) THEN (CHOOSE p \in d.items : p[1] = k)[2] ELSE default

\* rec.get('p_value', 0) on a result record
GetPValue(rec) == IF "p_value" \in DOMAIN rec THEN rec.p_value ELSE Rat(0, 1)

\* the literal 0.05
P05 == Rat(5, 100)

----------------------------------------------------------------------------
(* scipy.stats.  What a call returns is not computed here: it is taken from  *)
(* `lib`, one answer of the installed library, drawn by the action from the  *)
(* sets below.  chi_strict tells whether the installed scipy rejects         *)
(* observed and expected frequencies whose sums disagree; sw_np whether its  *)
(* shapiro returns numpy scalars or Python floats.                           *)

Statistics == {Rat(0, 1), Rat(10, 1)}

PValues == {Rat(1, 100), Rat(5, 100), Rat(7, 100), NaN}

ADStatistics == {Rat(1, 1), Rat(2, 1), Rat(3, 1)}

ADCriticals == [1..6 -> {Rat(1, 1), Rat(2, 1)}]

SumsAgree(observed, expected) == RatSum(expected) = Rat(Sum(observed), 1)

ChisquareRaises(observed, expected, lib) ==
    lib.chi_strict /\ ~SumsAgree(observed, expected)

ChisquareCall(observed, expected) ==
    [fn |-> "chisquare", observed |-> observed, expected |-> expected]

KstestCall(data, dist, args) ==
    [fn |-> "kstest", data |-> data, dist |-> dist, args |-> args]

AndersonCall(data, dist) == [fn |-> "anderson", data |-> data, dist |-> dist]

ShapiroCall(data) == [fn |-> "shapiro", data |-> data]

\* distributions stats.anderson knows
AndersonDists == {"norm", "expon", "logistic", "gumbel"}

\* stats.anderson(...).critical_values: six values for the logistic family,
\* five for the others
AndersonCriticalValues(distribution, lib) ==
    IF distribution = "logistic" THEN lib.ad_crit ELSE SubSeq(lib.ad_crit, 1, 5)

----------------------------------------------------------------------------
(* statistical_tests.py: the runners.  Each returns [ret, calls]: the        *)
(* mapping it returns and the library calls it made, in order.               *)

Failure(msg) == [error |-> msg, success |-> FALSE]

chi_squared_test(observed_freq, expected_freq, lib) ==
    IF Len(observed_freq) # Len(expected_freq)
    THEN [ret |-> Failure("Observed and expected frequencies must have same length"),
          calls |-> <<>>]
    ELSE IF \E i \in 1..Len(expected_freq) : expected_freq[i].num <= 0
    THEN [ret |-> Failure("Expected frequencies must be positive"), calls |-> <<>>]
    ELSE IF ChisquareRaises(observed_freq, expected_freq, lib)
    THEN [ret |-> Failure("sum of observed and expected frequencies must agree"),
          calls |-> <<ChisquareCall(observed_freq, expected_freq)>>]
    ELSE [ret |-> [test |-> "chi_squared",
                   statistic |-> lib.chi_stat,
                   p_value |-> lib.chi_p,
                   significant |-> NpBool(FloatLt(lib.chi_p, P05)),
                   degrees_of_freedom |-> Len(observed_freq) - 1,
                   success |-> TRUE],
          calls |-> <<ChisquareCall(observed_freq, expected_freq)>>]

\* the arguments ks_test hands to stats.kstest for a supported distribution
KsArgs(data, distribution, params) ==
    IF distribution = "norm"
    THEN IF Truthy(params)
         THEN <<DictGet(params, "mean", Rat(0, 1)), DictGet(params, "std", Rat(1, 1))>>
         ELSE <<np_mean(data), np_std(data)>>
    ELSE IF distribution = "uniform"
    THEN IF Truthy(params)
         THEN <<DictGet(params, "loc", Rat(0, 1)), DictGet(params, "scale", Rat(1, 1))>>
         ELSE <<Rat(np_min(data), 1), Rat(np_max(data) - np_min(data), 1)>>
    ELSE IF Truthy(params)
         THEN <<Rat(0, 1), DictGet(params, "scale", Rat(1, 1))>>
         ELSE <<Rat(0, 1), np_mean(data)>>

ks_test(data, distribution, params, lib) ==
    IF Len(data) < 2
    THEN [ret |-> Failure("Data must have at least 2 values"), calls |-> <<>>]
    ELSE IF distribution \notin {"norm", "uniform", "expon"}
    THEN [ret |-> Failure("Unsupported distribution: " \o distribution), calls |-> <<>>]
    ELSE [ret |-> [test |-> "kolmogorov_smirnov",
                   distribution |-> distribution,
                   statistic |-> lib.ks_stat,
                   p_value |-> lib.ks_p,
                   significant |-> NpBool(FloatLt(lib.ks_p, P05)),
                   sample_size |-> Len(data),
                   success |-> TRUE],
          calls |-> <<KstestCall(data, distribution,
                                 KsArgs(data, distribution, params))>>]

significance_levels == <<Rat(15, 1), Rat(10, 1), Rat(5, 1), Rat(5, 2), Rat(1, 1)>>

\* the scan without its break: it goes on past a level that is not exceeded
RECURSIVE ADScan_without_break(_, _, _, _)
ADScan_without_break(statistic, critical_values, i, rejected_at) ==
    IF i > Len(critical_values)
    THEN [raised |-> FALSE, rejected_at |-> rejected_at]
    ELSE IF FloatGt(statistic, critical_values[i])
    THEN IF i > Len(significance_levels)
         THEN [raised |-> TRUE, rejected_at |-> rejected_at]
         ELSE ADScan_without_break(statistic, critical_values, i + 1,
                                   significance_levels[i])
    ELSE ADScan_without_break(statistic, critical_values, i + 1, rejected_at)

\* the scan over result.critical_values from index i on: [raised, rejected_at]
RECURSIVE ADScan(_, _, _, _)
ADScan(statistic, critical_values, i, rejected_at) ==
    IF i > Len(critical_values)
    THEN [raised |-> FALSE, rejected_at |-> rejected_at]
    ELSE IF FloatGt(statistic, critical_values[i])
    THEN IF i > Len(significance_levels)
         THEN [raised |-> TRUE, rejected_at |-> rejected_at]
         ELSE ADScan(statistic, critical_values, i + 1, significance_levels[i])
    ELSE [raised |-> FALSE, rejected_at |-> rejected_at]

\* zip(significance_levels, result.critical_values) as <<level, value>> pairs
ADCriticalDict(critical_values) ==
    {<<significance_levels[i], critical_values[i]>> :
        i \in 1..Min2(Len(significance_levels), Len(critical_values))}

anderson_darling_test(data, distribution, lib) ==
    IF Len(data) < 2
    THEN [ret |-> Failure("Data must have at least 2 values"), calls |-> <<>>]
    ELSE IF distribution \notin AndersonDists
    THEN [ret |-> Failure("Invalid distribution"),
          calls |-> <<AndersonCall(data, distribution)>>]
    ELSE LET cvs  == AndersonCriticalValues(distribution, lib)
             scan == ADScan(lib.ad_stat, cvs, 1, None)
         IN  IF scan.raised
             THEN [ret |-> Failure("list index out of range"),
                   calls |-> <<AndersonCall(data, distribution)>>]
             ELSE [ret |-> [test |-> "anderson_darling",
                            distribution |-> distribution,
                            statistic |-> lib.ad_stat,
                            critical_values |-> ADCriticalDict(cvs),
                            rejected_at |-> scan.rejected_at,
                            significant |-> PyBool(scan.rejected_at # None),
                            sample_size |-> Len(data),
                            success |-> TRUE],
                   calls |-> <<AndersonCall(data, distribution)>>]

ShapiroMin == 3

ShapiroMax == 5000

\* shapiro_wilk_test with its ceiling off by one: 5000 values are refused
shapiro_wilk_test_ceiling_off_by_one(data, lib) ==
    IF Len(data) < ShapiroMin
    THEN [ret |-> Failure("Data must have at least 3 values"), calls |-> <<>>]
    ELSE IF Len(data) >= ShapiroMax
    THEN [ret |-> Failure("Shapiro-Wilk test limited to 5000 samples"), calls |-> <<>>]
    ELSE [ret |-> [test |-> "shapiro_wilk",
                   statistic |-> lib.sw_stat,
                   p_value |-> lib.sw_p,
                   significant |-> IF lib.sw_np
                                   THEN NpBool(FloatLt(lib.sw_p, P05))
                                   ELSE PyBool(FloatLt(lib.sw_p, P05)),
                   sample_size |-> Len(data),
                   success |-> TRUE],
          calls |-> <<ShapiroCall(data)>>]

shapiro_wilk_test(data, lib) ==
    IF Len(data) < ShapiroMin
    THEN [ret |-> Failure("Data must have at least 3 values"), calls |-> <<>>]
    ELSE IF Len(data) > ShapiroMax
    THEN [ret |-> Failure("Shapiro-Wilk test limited to 5000 samples"), calls |-> <<>>]
    ELSE [ret |-> [test |-> "shapiro_wilk",
                   statistic |-> lib.sw_stat,
                   p_value |-> lib.sw_p,
                   significant |-> IF lib.sw_np
                                   THEN NpBool(FloatLt(lib.sw_p, P05))
                                   ELSE PyBool(FloatLt(lib.sw_p, P05)),
                   sample_size |-> Len(data),
                   success |-> TRUE],
          calls |-> <<ShapiroCall(data)>>]

MaxBins == 10

\* n_bins = min(10, int(np.sqrt(len(data_array))))
NBins(data) == Min2(MaxBins, ISqrt(Len(data)))

\* expected = np.full(n_bins, len(data_array) / n_bins), for n_bins >= 1
UniformExpected(data) == np_full(NBins(data), Rat(Len(data), NBins(data)))

\* uniformity_test with `or` for `and` in is_uniform
uniformity_test_either_p_value(data, lib) ==
    LET ks == ks_test(data, "uniform", None, lib)
    IN  IF NBins(data) < 1
        THEN [ret |-> Failure("bins must be positive, when an integer"),
              calls |-> ks.calls]
        ELSE LET hist == np_histogram(data, NBins(data))
                 chi2 == chi_squared_test(hist, UniformExpected(data), lib)
             IN  [ret |-> [ks_test |-> ks.ret,
                           chi_squared_test |-> chi2.ret,
                           is_uniform |-> PyBool(FloatGt(GetPValue(ks.ret), P05)
                                                 \/ FloatGt(GetPValue(chi2.ret), P05)),
                           success |-> TRUE],
                  calls |-> ks.calls \o chi2.calls]

uniformity_test(data, lib) ==
    LET ks == ks_test(data, "uniform", None, lib)
    IN  IF NBins(data) < 1
        THEN [ret |-> Failure("bins must be positive, when an integer"),
              calls |-> ks.calls]
        ELSE LET hist == np_histogram(data, NBins(data))
                 chi2 == chi_squared_test(hist, UniformExpected(data), lib)
             IN  [ret |-> [ks_test |-> ks.ret,
                           chi_squared_test |-> chi2.ret,
                           is_uniform |-> PyBool(FloatGt(GetPValue(ks.ret), P05)
                                                 /\ FloatGt(GetPValue(chi2.ret), P05)),
                           success |-> TRUE],
                  calls |-> ks.calls \o chi2.calls]

----------------------------------------------------------------------------
(* Command-line tokens, json and the process's output *)

\* a command-line token: kind "json" is the text of a JSON value val, kind
\* "float" / "int" the text of a number val, kind "str" any other text
\* (never valid JSON, never a number), kind "absent" a flag not given
JsonTok(v) == [kind |-> "json", val |-> v]

StrTok(s) == [kind |-> "str", val |-> s]

FloatTok(r) == [kind |-> "float", val |-> r]

IntTok(i) == [kind |-> "int", val |-> i]

Absent == [kind |-> "absent", val |-> 0]

Garbage == StrTok("not-json")

\* json.loads(token)
JsonLoads(token) ==
    IF token.kind = "json"
    THEN [ok |-> TRUE, val |-> token.val, msg |-> ""]
    ELSE [ok |-> FALSE, val |-> None, msg |-> "Expecting value: line 1 column 1 (char 0)"]

IsNumpyBoolIn(rec) ==
    "significant" \in DOMAIN rec /\ rec.significant.py = "numpy.bool_"

\* json.dumps(rec) raises TypeError: a numpy.bool_ is not JSON serializable
JsonDumpsRaises(rec) ==
    \/ IsNumpyBoolIn(rec)
    \/ "ks_test" \in DOMAIN rec /\ IsNumpyBoolIn(rec.ks_test)
    \/ "chi_squared_test" \in DOMAIN rec /\ IsNumpyBoolIn(rec.chi_squared_test)

NotSerializable == "Object of type bool_ is not JSON serializable"

\* one line written by print(json.dumps(rec))
JsonLine(rec) == [fmt |-> "json", rec |-> rec]

\* what argparse writes before it exits: a usage message, not JSON
UsageLine == [fmt |-> "text", rec |-> [text |-> "usage: ... error: ..."]]

NoResult == [none |-> TRUE]

\* the state a process ends in
Outcome(res, cs, out, err, code) ==
    [result |-> res, calls |-> cs, stdout |-> out, stderr |-> err, exit_code |-> code]

\* parser.parse_args() rejecting the command line: usage on stderr, exit 2
ArgparseExit == Outcome(NoResult, <<>>, <<>>, <<UsageLine>>, 2)

\* the except branch of the argparse utilities
ErrorExit(res, cs, msg, type) ==
    Outcome(res, cs, <<>>, <<JsonLine([error |-> msg, type |-> type])>>, 1)

Raise(type, msg, cs) ==
    [raised |-> TRUE, type |-> type, msg |-> msg, ret |-> NoResult, calls |-> cs]

Return(ret, cs) ==
    [raised |-> FALSE, type |-> "", msg |-> "", ret |-> ret, calls |-> cs]

\* print(json.dumps(result)); sys.exit(0) inside try, and the except branch
PrintOrError(body) ==
    IF body.raised
    THEN ErrorExit(NoResult, body.calls, body.msg, body.type)
    ELSE IF JsonDumpsRaises(body.ret)
    THEN ErrorExit(body.ret, body.calls, NotSerializable, "TypeError")
    ELSE Outcome(body.ret, body.calls, <<JsonLine(body.ret)>>, <<>>, 0)

----------------------------------------------------------------------------
(* chi_squared_test.py *)

\* cli_chi_squared_test without its length check
cli_chi_squared_test_unchecked_length(observed, expected, alpha, lib) ==
    IF \E i \in 1..Len(expected) : expected[i].num = 0
    THEN Raise("ValueError", "Expected frequencies cannot be zero", <<>>)
    ELSE IF ChisquareRaises(observed, expected, lib)
    THEN Raise("ValueError", "sum of observed and expected frequencies must agree",
               <<ChisquareCall(observed, expected)>>)
    ELSE Return([statistic |-> lib.chi_stat,
                 pvalue |-> lib.chi_p,
                 significant |-> NpBool(FloatLt(lib.chi_p, alpha)),
                 alpha |-> alpha],
                <<ChisquareCall(observed, expected)>>)

cli_chi_squared_test(observed, expected, alpha, lib) ==
    IF Len(observed) # Len(expected)
    THEN Raise("ValueError", "Observed and expected must have same length", <<>>)
    ELSE IF \E i \in 1..Len(expected) : expected[i].num = 0
    THEN Raise("ValueError", "Expected frequencies cannot be zero", <<>>)
    ELSE IF ChisquareRaises(observed, expected, lib)
    THEN Raise("ValueError", "sum of observed and expected frequencies must agree",
               <<ChisquareCall(observed, expected)>>)
    ELSE Return([statistic |-> lib.chi_stat,
                 pvalue |-> lib.chi_p,
                 significant |-> NpBool(FloatLt(lib.chi_p, alpha)),
                 alpha |-> alpha],
                <<ChisquareCall(observed, expected)>>)

chi_squared_main(args, lib) ==
    IF \/ args.observed.kind = "absent"
       \/ args.expected.kind = "absent"
       \/ args.alpha.kind \notin {"absent", "float"}
    THEN ArgparseExit
    ELSE LET alpha    == IF args.alpha.kind = "absent" THEN P05 ELSE args.alpha.val
             observed == JsonLoads(args.observed)
             expected == JsonLoads(args.expected)
         IN  IF ~observed.ok
             THEN PrintOrError(Raise("JSONDecodeError", observed.msg, <<>>))
             ELSE IF ~expected.ok
             THEN PrintOrError(Raise("JSONDecodeError", expected.msg, <<>>))
             ELSE PrintOrError(
                      cli_chi_squared_test(observed.val, expected.val, alpha, lib))

----------------------------------------------------------------------------
(* ks_test.py *)

cli_ks_test(data, distribution, params, lib) ==
    LET p == IF params.none THEN Dict({}) ELSE params
    IN  IF distribution \notin {"normal", "zipf"}
        THEN Raise("ValueError", "Unsupported distribution: " \o distribution, <<>>)
        ELSE LET args == IF distribution = "normal"
                         THEN <<DictGet(p, "mean", np_mean(data)),
                                DictGet(p, "std", np_std(data))>>
                         ELSE <<DictGet(p, "a", Rat(3, 2))>>
                 dist == IF distribution = "normal" THEN "norm" ELSE "zipf"
                 call == KstestCall(data, dist, args)
             IN  IF Len(data) = 0 /\ lib.ks_empty_raises
                 THEN Raise("ValueError", "Data passed to ks_1samp must not be empty",
                            <<call>>)
                 ELSE Return([statistic |-> lib.ks_stat, pvalue |-> lib.ks_p],
                             <<call>>)

ks_main(args, lib) ==
    IF args.data.kind = "absent"
    THEN ArgparseExit
    ELSE LET distribution == IF args.distribution.kind = "absent"
                             THEN "normal" ELSE args.distribution.val
             data   == JsonLoads(args.data)
             params == IF args.params.kind = "absent"
                       THEN [ok |-> TRUE, val |-> None, msg |-> ""]
                       ELSE JsonLoads(args.params)
         IN  IF ~data.ok
             THEN PrintOrError(Raise("JSONDecodeError", data.msg, <<>>))
             ELSE IF ~params.ok
             THEN PrintOrError(Raise("JSONDecodeError", params.msg, <<>>))
             ELSE PrintOrError(cli_ks_test(data.val, distribution, params.val, lib))

----------------------------------------------------------------------------
(* normal_distribution.py, zipf_distribution.py, check_dependencies.py *)

\* np.random.seed(seed) rejects a negative seed
SeedRaises(seed) == seed.kind = "int" /\ seed.val < 0

generate_normal(n, mean, std, seed, lib) ==
    IF SeedRaises(seed)
    THEN Raise("ValueError", "Seed must be between 0 and 2**32 - 1", <<>>)
    ELSE IF ~FloatGt(std, Rat(0, 1))
    THEN Raise("ValueError", "Standard deviation must be positive", <<>>)
    ELSE IF n < 0
    THEN Raise("ValueError", "negative dimensions are not allowed",
               <<[fn |-> "normal", n |-> n]>>)
    ELSE Return(SubSeq(lib.draws, 1, n), <<[fn |-> "normal", n |-> n]>>)

normal_main(args, lib) ==
    IF \/ args.n.kind # "int"
       \/ args.mean.kind \notin {"absent", "float"}
       \/ args.std.kind \notin {"absent", "float"}
       \/ args.seed.kind \notin {"absent", "int"}
    THEN ArgparseExit
    ELSE LET mean == IF args.mean.kind = "absent" THEN Rat(0, 1) ELSE args.mean.val
             std  == IF args.std.kind = "absent" THEN Rat(1, 1) ELSE args.std.val
             gen  == generate_normal(args.n.val, mean, std, args.seed, lib)
         IN  IF gen.raised
             THEN PrintOrError(gen)
             ELSE PrintOrError(Return([values |-> gen.ret, n |-> args.n.val,
                                       mean |-> mean, std |-> std, seed |-> args.seed],
                                      gen.calls))

generate_zipf(n, a, seed, lib) ==
    IF SeedRaises(seed)
    THEN Raise("ValueError", "Seed must be between 0 and 2**32 - 1", <<>>)
    ELSE IF ~FloatGt(a, Rat(1, 1))
    THEN Raise("ValueError", "a must be > 1", <<[fn |-> "zipf", n |-> n]>>)
    ELSE IF n < 0
    THEN Raise("ValueError", "negative dimensions are not allowed",
               <<[fn |-> "zipf", n |-> n]>>)
    ELSE Return(SubSeq(lib.draws, 1, n), <<[fn |-> "zipf", n |-> n]>>)

zipf_main(args, lib) ==
    IF \/ args.n.kind # "int"
       \/ args.a.kind \notin {"absent", "float"}
       \/ args.seed.kind \notin {"absent", "int"}
    THEN ArgparseExit
    ELSE LET a   == IF args.a.kind = "absent" THEN Rat(3, 2) ELSE args.a.val
             gen == generate_zipf(args.n.val, a, args.seed, lib)
         IN  IF gen.raised
             THEN PrintOrError(gen)
             ELSE PrintOrError(Return([values |-> gen.ret, n |-> args.n.val,
                                       a |-> a, seed |-> args.seed],
                                      gen.calls))

check_dependencies(lib) ==
    LET missing == (IF lib.numpy THEN <<>> ELSE <<"numpy">>)
                   \o (IF lib.scipy THEN <<>> ELSE <<"scipy">>)
    IN  [all_available |-> Len(missing) = 0, missing |-> missing]

check_dependencies_main(lib) == PrintOrError(Return(check_dependencies(lib), <<>>))

----------------------------------------------------------------------------
(* statistical_tests.py: main.  sys.argv[k] is a[k + 1]. *)

\* json.loads(sys.argv[k]): IndexError when the token is missing
LoadArg(a, k) ==
    IF Len(a) <= k
    THEN [ok |-> FALSE, val |-> None, msg |-> "list index out of range"]
    ELSE JsonLoads(a[k + 1])

\* sys.argv[3] if len(sys.argv) > 3 else 'norm'
DistributionArg(a) == IF Len(a) > 3 THEN a[4].val ELSE "norm"

Threw(msg) == [raised |-> TRUE, msg |-> msg, ret |-> NoResult, calls |-> <<>>]

Ran(r) == [raised |-> FALSE, msg |-> "", ret |-> r.ret, calls |-> r.calls]

\* the try block of main up to print: the runner's return, or the exception
Dispatch(a, lib) ==
    LET test_type == a[2].val
        first     == LoadArg(a, 2)
    IN  IF test_type = "chi_squared"
        THEN LET expected == LoadArg(a, 3)
             IN  IF ~first.ok THEN Threw(first.msg)
                 ELSE IF ~expected.ok THEN Threw(expected.msg)
                 ELSE Ran(chi_squared_test(first.val, expected.val, lib))
        ELSE IF test_type = "ks_test"
        THEN LET params == IF Len(a) > 4 THEN JsonLoads(a[5])
                           ELSE [ok |-> TRUE, val |-> None, msg |-> ""]
             IN  IF ~first.ok THEN Threw(first.msg)
                 ELSE IF ~params.ok THEN Threw(params.msg)
                 ELSE Ran(ks_test(first.val, DistributionArg(a), params.val, lib))
        ELSE IF test_type = "anderson"
        THEN IF ~first.ok THEN Threw(first.msg)
             ELSE Ran(anderson_darling_test(first.val, DistributionArg(a), lib))
        ELSE IF test_type = "shapiro"
        THEN IF ~first.ok THEN Threw(first.msg)
             ELSE Ran(shapiro_wilk_test(first.val, lib))
        ELSE IF test_type = "uniformity"
        THEN IF ~first.ok THEN Threw(first.msg)
             ELSE Ran(uniformity_test(first.val, lib))
        ELSE Ran([ret |-> Failure("Unknown test type: " \o test_type), calls |-> <<>>])

\* the process ends with exit code 0 unless sys.exit(1) is reached
statistical_tests_main(a, lib) ==
    IF Len(a) < 2
    THEN Outcome(NoResult, <<>>, <<JsonLine(Failure("No test specified"))>>, <<>>, 1)
    ELSE LET body == Dispatch(a, lib)
         IN  IF body.raised
             THEN Outcome(NoResult, body.calls, <<JsonLine(Failure(body.msg))>>, <<>>, 1)
             ELSE IF JsonDumpsRaises(body.ret)
             THEN Outcome(body.ret, body.calls,
                          <<JsonLine(Failure(NotSerializable))>>, <<>>, 1)
             ELSE Outcome(body.ret, body.calls, <<JsonLine(body.ret)>>, <<>>, 0)

----------------------------------------------------------------------------
(* Inputs *)

SampleValues == {1, 2, 3}

SmallSamples == SeqsUpTo(SampleValues, MaxLen)

\* a long sample of n values spread over 1..13
Ramp(n) == [i \in 1..n |-> 1 + ((i * 7) % 13)]

ShapiroSamples ==
    SmallSamples \cup {Ramp(n) : n \in {ShapiroMax - 1, ShapiroMax, ShapiroMax + 1}}

UniformitySamples == SmallSamples \cup {Ramp(n) : n \in {80, 100, 121, 150}}

ObservedSeqs == SeqsUpTo(0..2, MaxFreqLen)

ExpectedSeqs == SeqsUpTo({Rat(0 - 1, 1), Rat(0, 1), Rat(1, 1), Rat(2, 1)}, MaxFreqLen)

JsonTexts(S) == {JsonTok(v) : v \in S} \cup {Garbage}

\* a dict over some of the keys, every given value being 2
Dicts(keys) == {Dict({<<k, Rat(2, 1)>> : k \in ks}) : ks \in SUBSET keys}

\* every sequence of tokens that is a prefix of one with a token of each set
RECURSIVE Prefixes(_)
Prefixes(sets) ==
    IF Len(sets) = 0 THEN {<<>>}
    ELSE LET shorter == Prefixes(SubSeq(sets, 1, Len(sets) - 1))
         IN  shorter \cup {p \o <<t>> : p \in {q \in shorter : Len(q) = Len(sets) - 1},
                                        t \in sets[Len(sets)]}

Prog == StrTok("statistical_tests.py")

Command(name, sets) == {<<Prog, StrTok(name)>> \o rest : rest \in Prefixes(sets)}

ChiLibs == [chi_strict : BOOLEAN, chi_stat : Statistics, chi_p : PValues]

KsLibs == [ks_stat : Statistics, ks_p : PValues]

CliKsLibs == [ks_stat : Statistics, ks_p : PValues, ks_empty_raises : BOOLEAN]

ADLibs == [ad_stat : ADStatistics, ad_crit : ADCriticals]

SWLibs == [sw_stat : Statistics, sw_p : PValues, sw_np : BOOLEAN]

UniLibs == [chi_strict : BOOLEAN, chi_stat : Statistics, chi_p : PValues,
            ks_stat : Statistics, ks_p : PValues]

GenLibs == [draws : [1..MaxN -> {1, 2}]]

DepLibs == [numpy : BOOLEAN, scipy : BOOLEAN]

NoLib == [none : {TRUE}]

CountTokens == {Absent, Garbage} \cup {IntTok(n) : n \in (0 - 1)..MaxN}

SeedTokens == {Absent, IntTok(42), IntTok(0 - 1)}

----------------------------------------------------------------------------
(* The process *)

Init ==
    /\ pc = "ready"
    /\ utility = "none"
    /\ argv = <<>>
    /\ result = NoResult
    /\ calls = <<>>
    /\ stdout = <<>>
    /\ stderr = <<>>
    /\ exit_code = 0 - 1

\* the process runs `name` on command line `a` and ends as `o`
Exit(name, a, o) ==
    /\ pc' = "exited"
    /\ utility' = name
    /\ argv' = a
    /\ result' = o.result
    /\ calls' = o.calls
    /\ stdout' = o.stdout
    /\ stderr' = o.stderr
    /\ exit_code' = o.exit_code

RunChiSquared ==
    /\ pc = "ready"
    /\ \E args \in [observed : JsonTexts(ObservedSeqs) \cup {Absent},
                    expected : JsonTexts(ExpectedSeqs) \cup {Absent},
                    alpha : {Absent, Garbage, FloatTok(Rat(1, 100)), FloatTok(Rat(1, 10))}],
          lib \in ChiLibs :
           Exit("chi_squared_test.py", args, chi_squared_main(args, lib))

RunKs ==
    /\ pc = "ready"
    /\ \E args \in [data : JsonTexts(SmallSamples) \cup {Absent},
                    distribution : {Absent, StrTok("normal"), StrTok("zipf"),
                                    StrTok("uniform")},
                    params : JsonTexts(Dicts({"mean", "std", "a"})) \cup {Absent}],
          lib \in CliKsLibs :
           Exit("ks_test.py", args, ks_main(args, lib))

RunNormal ==
    /\ pc = "ready"
    /\ \E args \in [n : CountTokens,
                    mean : {Absent, Garbage, FloatTok(Rat(5, 1))},
                    std : {Absent, FloatTok(Rat(0, 1)), FloatTok(Rat(2, 1))},
                    seed : SeedTokens],
          lib \in GenLibs :
           Exit("normal_distribution.py", args, normal_main(args, lib))

RunZipf ==
    /\ pc = "ready"
    /\ \E args \in [n : CountTokens,
                    a : {Absent, Garbage, FloatTok(Rat(1, 1)), FloatTok(Rat(2, 1))},
                    seed : SeedTokens],
          lib \in GenLibs :
           Exit("zipf_distribution.py", args, zipf_main(args, lib))

RunCheckDependencies ==
    /\ pc = "ready"
    /\ \E lib \in DepLibs :
           Exit("check_dependencies.py", <<>>, check_dependencies_main(lib))

RunTestsNoCommand ==
    /\ pc = "ready"
    /\ Exit("statistical_tests.py", <<Prog>>, statistical_tests_main(<<Prog>>, NoLib))

RunTestsUnknown ==
    /\ pc = "ready"
    /\ \E a \in Command("median", <<JsonTexts(SmallSamples)>>) :
           Exit("statistical_tests.py", a, statistical_tests_main(a, NoLib))

RunTestsChiSquared ==
    /\ pc = "ready"
    /\ \E a \in Command("chi_squared", <<JsonTexts(ObservedSeqs), JsonTexts(ExpectedSeqs)>>),
          lib \in ChiLibs :
           Exit("statistical_tests.py", a, statistical_tests_main(a, lib))

RunTestsKs ==
    /\ pc = "ready"
    /\ \E a \in Command("ks_test",
                        <<JsonTexts(SmallSamples),
                          {StrTok("norm"), StrTok("uniform"), StrTok("expon"),
                           StrTok("zipf")},
                          JsonTexts(Dicts({"mean", "std", "loc", "scale"}))>>),
          lib \in KsLibs :
           Exit("statistical_tests.py", a, statistical_tests_main(a, lib))

RunTestsAnderson ==
    /\ pc = "ready"
    /\ \E a \in Command("anderson",
                        <<JsonTexts(SmallSamples),
                          {StrTok("expon"), StrTok("logistic"), StrTok("cauchy")}>>),
          lib \in ADLibs :
           Exit("statistical_tests.py", a, statistical_tests_main(a, lib))

RunTestsShapiro ==
    /\ pc = "ready"
    /\ \E a \in Command("shapiro", <<JsonTexts(ShapiroSamples)>>), lib \in SWLibs :
           Exit("statistical_tests.py", a, statistical_tests_main(a, lib))

RunTestsUniformity ==
    /\ pc = "ready"
    /\ \E a \in Command("uniformity", <<JsonTexts(UniformitySamples)>>), lib \in UniLibs :
           Exit("statistical_tests.py", a, statistical_tests_main(a, lib))

Next ==
    \/ RunChiSquared
    \/ RunKs
    \/ RunNormal
    \/ RunZipf
    \/ RunCheckDependencies
    \/ RunTestsNoCommand
    \/ RunTestsUnknown
    \/ RunTestsChiSquared
    \/ RunTestsKs
    \/ RunTestsAnderson
    \/ RunTestsShapiro
    \/ RunTestsUniformity

Spec == Init /\ [][Next]_vars

----------------------------------------------------------------------------
(* Vocabulary of the properties *)

Exited(name) == pc = "exited" /\ utility = name

\* the multi-test dispatcher ran subcommand `name`
TestsRan(name) ==
    Exited("statistical_tests.py") /\ Len(argv) >= 2 /\ argv[2].val = name

\* ... and its first JSON argument was there and parsed
TestsRanOn(name) == TestsRan(name) /\ Len(argv) >= 3 /\ argv[3].kind = "json"

Emitted == stdout \o stderr

IsErrorLine(line) == line.fmt = "json" /\ "error" \in DOMAIN line.rec

EmittedError == \E i \in 1..Len(Emitted) : IsErrorLine(Emitted[i])

EmittedSuccess ==
    \E i \in 1..Len(stdout) : stdout[i].fmt = "json" /\ "error" \notin DOMAIN stdout[i].rec

\* the chi-squared utility got past argparse and parsed both arrays
ChiCliParsed ==
    /\ Exited("chi_squared_test.py")
    /\ argv.observed.kind = "json"
    /\ argv.expected.kind = "json"
    /\ argv.alpha.kind \in {"absent", "float"}

\* the dispatcher's chi_squared subcommand parsed both arrays
ChiTestsParsed ==
    /\ TestsRan("chi_squared")
    /\ Len(argv) >= 4
    /\ argv[3].kind = "json"
    /\ argv[4].kind = "json"

AllPositive(expected) == \A i \in 1..Len(expected) : expected[i].num > 0

CalledLibrary(fn) == \E i \in 1..Len(calls) : calls[i].fn = fn

----------------------------------------------------------------------------
(* C1 *)

\* C1: in every utility the exit code is 1 whenever the emitted record is an
\* error record, and 0 only when a success result was emitted
C1_ErrorRecordMeansExitOne ==
    pc = "exited" =>
        /\ EmittedError => exit_code = 1
        /\ exit_code = 0 => EmittedSuccess

----------------------------------------------------------------------------
(* C2 *)

\* C2: every invocation ends either with a result and exit code 0 or with one
\* structured error record and exit code 1; no other exit code and no
\* unstructured output, argument-parsing failures included
C2_EveryFailureIsStructured ==
    pc = "exited" =>
        /\ exit_code \in {0, 1}
        /\ \A i \in 1..Len(Emitted) : Emitted[i].fmt = "json"
        /\ exit_code = 1 => EmittedError

----------------------------------------------------------------------------
(* C3 *)

\* C3: a chi-squared CLI invocation with arrays of equal length and strictly
\* positive expected entries writes the returned mapping as one JSON line on
\* standard output, writes no error record, and exits 0
C3_ValidChiSquaredSucceeds ==
    (/\ ChiCliParsed
     /\ Len(argv.observed.val) = Len(argv.expected.val)
     /\ AllPositive(argv.expected.val))
    => /\ exit_code = 0
       /\ stderr = <<>>
       /\ Len(stdout) = 1
       /\ stdout[1].fmt = "json"
       /\ DOMAIN stdout[1].rec = {"statistic", "pvalue", "significant", "alpha"}

----------------------------------------------------------------------------
(* C4 *)

C4_CliMismatch ==
    ChiCliParsed /\ Len(argv.observed.val) # Len(argv.expected.val)

C4_TestsMismatch ==
    ChiTestsParsed /\ Len(argv[3].val) # Len(argv[4].val)

\* C4: in both chi-squared implementations a length mismatch between observed
\* and expected is an error and no statistic or p-value is computed or
\* returned; the single-test CLI writes the error JSON to standard error and
\* exits 1
C4_LengthMismatchIsError ==
    /\ C4_CliMismatch =>
        /\ ~CalledLibrary("chisquare")
        /\ result = NoResult
        /\ stdout = <<>>
        /\ Len(stderr) = 1
        /\ IsErrorLine(stderr[1])
        /\ exit_code = 1
    /\ C4_TestsMismatch =>
        /\ ~CalledLibrary("chisquare")
        /\ "error" \in DOMAIN result
        /\ result.success = FALSE
        /\ "statistic" \notin DOMAIN result
        /\ "p_value" \notin DOMAIN result

\* a single-test run on arrays of lengths 1 and 2 that ended in the error branch
C4_Witness ==
    /\ C4_CliMismatch
    /\ Len(argv.observed.val) = 1
    /\ Len(argv.expected.val) = 2
    /\ AllPositive(argv.expected.val)
    /\ exit_code = 1

----------------------------------------------------------------------------
(* C5 *)

\* C5: in both chi-squared implementations an expected entry that is zero or
\* negative makes the call fail: the outcome is an error and no statistic is
\* computed and returned
C5_NonPositiveExpectedIsError ==
    /\ (ChiCliParsed /\ ~AllPositive(argv.expected.val)) =>
        result = NoResult /\ exit_code = 1
    /\ (ChiTestsParsed /\ ~AllPositive(argv[4].val)) =>
        "error" \in DOMAIN result /\ "statistic" \notin DOMAIN result

----------------------------------------------------------------------------
(* C6 *)

\* C6: a uniformity composite that embeds a failed sub-result is itself a
\* failed result
C6_SubFailureFailsComposite ==
    (TestsRanOn("uniformity") /\ "ks_test" \in DOMAIN result) =>
        ((~result.ks_test.success \/ ~result.chi_squared_test.success)
            => result.success = FALSE)

----------------------------------------------------------------------------
(* C7 *)

C7_Composite == TestsRanOn("uniformity") /\ "is_uniform" \in DOMAIN result

C7_PAbove(sub) == "p_value" \in DOMAIN sub /\ FloatGt(sub.p_value, Rat(5, 100))

C7_Bins(n) == IF ISqrt(n) < 10 THEN ISqrt(n) ELSE 10

\* C7: is_uniform is true only if both sub-results carry a p-value above 0.05,
\* and the chi-squared sub-test ran on a histogram of min(10, floor(sqrt(n)))
\* bins of the n values against n/bins expected per bin
C7_UniformNeedsBothPValues ==
    C7_Composite =>
        LET n    == Len(argv[3].val)
            bins == C7_Bins(n)
        IN  /\ result.is_uniform.v =>
                C7_PAbove(result.ks_test) /\ C7_PAbove(result.chi_squared_test)
            /\ \E i \in 1..Len(calls) :
                /\ calls[i].fn = "chisquare"
                /\ Len(calls[i].observed) = bins
                /\ Sum(calls[i].observed) = n
                /\ Len(calls[i].expected) = bins
                /\ \A j \in 1..bins :
                    calls[i].expected[j].num * bins = n * calls[i].expected[j].den

\* a sample of 121 values, binned in 10 bins, found uniform
C7_Witness ==
    /\ C7_Composite
    /\ Len(argv[3].val) = 121
    /\ result.is_uniform.v

----------------------------------------------------------------------------
(* C8 *)

\* C8: the Shapiro-Wilk runner returns an error without calling the library
\* below 3 and above 5000 values, and calls it and returns a statistic and a
\* p-value for every size from 3 to 5000
C8_ShapiroBounds ==
    TestsRanOn("shapiro") =>
        LET n == Len(argv[3].val)
        IN  IF n < 3 \/ n > 5000
            THEN /\ ~CalledLibrary("shapiro")
                 /\ "error" \in DOMAIN result
                 /\ result.success = FALSE
            ELSE /\ calls = <<ShapiroCall(argv[3].val)>>
                 /\ "error" \notin DOMAIN result
                 /\ {"statistic", "p_value"} \subseteq DOMAIN result
                 /\ result.success = TRUE

\* a sample of exactly 5000 values reached the library
C8_Witness ==
    /\ TestsRanOn("shapiro")
    /\ Len(argv[3].val) = 5000
    /\ CalledLibrary("shapiro")
    /\ result.success = TRUE

----------------------------------------------------------------------------
(* C9 *)

C9_Levels == <<Rat(15, 1), Rat(10, 1), Rat(5, 1), Rat(5, 2), Rat(1, 1)>>

C9_Result == TestsRanOn("anderson") /\ "rejected_at" \in DOMAIN result

\* the statistic exceeds the critical value reported for level C9_Levels[k]
C9_Exceeds(k) ==
    \E p \in result.critical_values :
        p[1] = C9_Levels[k] /\ FloatGt(result.statistic, p[2])

----------------------------------------------------------------------------
(* C10 *)

\* the parameter named k that the caller gave, else the estimate
C10_GivenOr(params, k, estimate) ==
    IF DictHas(params, k) THEN DictGet(params, k, estimate) ELSE estimate

C10_Params(token) == IF token.kind = "json" THEN token.val ELSE None

\* C10: in both KS implementations every distribution parameter the caller
\* omits is estimated from the sample: mean and std for normal, loc (minimum)
\* and scale (range) for uniform, scale (mean) for exponential
C10_OmittedParamsAreEstimated ==
    /\ (Exited("ks_test.py") /\ CalledLibrary("kstest") /\ calls[1].dist = "norm") =>
        LET data   == argv.data.val
            params == C10_Params(argv.params)
        IN  calls[1].args = <<C10_GivenOr(params, "mean", np_mean(data)),
                              C10_GivenOr(params, "std", np_std(data))>>
    /\ (TestsRanOn("ks_test") /\ CalledLibrary("kstest")) =>
        LET data   == argv[3].val
            params == IF Len(argv) > 4 THEN C10_Params(argv[5]) ELSE None
        IN  /\ calls[1].dist = "norm" =>
                calls[1].args = <<C10_GivenOr(params, "mean", np_mean(data)),
                                  C10_GivenOr(params, "std", np_std(data))>>
            /\ calls[1].dist = "uniform" =>
                calls[1].args =
                    <<C10_GivenOr(params, "loc", Rat(np_min(data), 1)),
                      C10_GivenOr(params, "scale",
                                  Rat(np_max(data) - np_min(data), 1))>>
            /\ calls[1].dist = "expon" =>
                calls[1].args[2] = C10_GivenOr(params, "scale", np_mean(data))

====
